---- MODULE Spec2Model ----
(***************************************************************************)
(* Smart Bookmark: the Home page component (src/app/page.tsx), its add     *)
(* form (BookmarkForm.tsx), its cards (BookmarkCard) and the Dashboard     *)
(* summary, against a row store that enforces the row-level policies the   *)
(* repository documents.                                                   *)
(*                                                                         *)
(* Every async handler is split at its awaits: the part before the await   *)
(* is the click action, the store serves the request in ServeRequest, and  *)
(* the part after the await is the handler's completion action, taken with *)
(* the served result or, for a request the store has not served, with an   *)
(* error result or an exception.  A handler reads the component state of   *)
(* the render it was created in, so the values it closes over (bookmarks,  *)
(* title, url, editingId, ...) are copied into its task when the click     *)
(* happens.                                                                *)
(*                                                                         *)
(* Text (title, url) is a sequence of one-character strings.               *)
(***************************************************************************)
EXTENDS Integers, Sequences, FiniteSets, TLC

VARIABLES
    route,        \* "/" while Home is mounted, "/login" after router.push("/login")
    sessionPc,    \* position of checkUser: "idle" | "pending" | "done"
    sessionChecks,\* number of supabase.auth.getSession() calls made
    loading,      \* useState(true)
    userId,       \* useState<string | null>(null)
    email,        \* useState<string | null>(null)
    bookmarks,    \* useState<Bookmark[]>([])
    title,        \* add form
    url,
    category,
    formError,
    adding,
    editingId,    \* edit state
    editTitle,
    editUrl,
    updating,
    store,        \* the rows of the bookmarks table
    nextId,       \* the store's id / timestamp generator
    tasks,        \* handlers suspended at an await, with what they closed over
    searchTerm,   \* display controls of the bookmark list
    filterCategory,
    sortOption,
    favoritesFilter,
    opCount,      \* store operations started by the user so far
    last          \* what the step taken last did ("other": nothing a request settles)

vars == <<route, sessionPc, sessionChecks, loading, userId, email, bookmarks,
          title, url, category, formError, adding,
          editingId, editTitle, editUrl, updating,
          searchTerm, filterCategory, sortOption, favoritesFilter,
          store, nextId, tasks, opCount, last>>

authVars == <<route, sessionPc, sessionChecks, loading, userId, email>>
formVars == <<title, url, category, formError, adding>>
editVars == <<editingId, editTitle, editUrl, updating>>
viewVars == <<searchTerm, filterCategory, sortOption, favoritesFilter>>

\* ------------------------------------------------------------------ bounds
\* Store operations (add, save, toggle, delete) the user starts in one run.
MaxOps == 2

\* Longest list handed to the bookmark list view in ViewSpec.
MaxLen == 3

\* ------------------------------------------------------------------ values
Null == "null"   \* a null string (userId, email)
NoId == 0        \* a null bookmark id (editingId)

SessionUser == "u1"
OtherUser == "u2"
SessionEmail == "u1@example.com"

ErrRequired == "Title and URL are required."
ErrUrl == "URL must start with http:// or https://"
ErrAuth == "Authentication required. Please log in."
ErrInsert == "Failed to add bookmark. Please try again."
ErrUnexpected == "An unexpected error occurred. Please try again."

Empty == <<>>
TxtGo == <<"G", "o">>
TxtRust == <<"R", "u">>
UrlHttp == <<"h", "t", "t", "p", ":", "/", "/", "a">>
UrlHttps == <<"h", "t", "t", "p", "s", ":", "/", "/", "b">>
UrlUpper == <<"H", "T", "T", "P", ":", "/", "/", "c">>
UrlFtp == <<"f", "t", "p", ":", "/", "/", "x">>

\* What the user types into the add form and into the edit fields.
TitleInputs == {TxtRust}
UrlInputs == {UrlFtp, UrlUpper}
EditTitleInputs == {TxtRust}
EditUrlInputs == {UrlFtp}

\* ------------------------------------------------------------------ text
LowerChar(c) ==
    CASE c = "H" -> "h"
      [] c = "T" -> "t"
      [] c = "P" -> "p"
      [] c = "S" -> "s"
      [] c = "G" -> "g"
      [] c = "R" -> "r"
      [] OTHER -> c

ToLowerCase(s) == [i \in 1..Len(s) |-> LowerChar(s[i])]

StartsWith(s, p) == Len(s) >= Len(p) /\ SubSeq(s, 1, Len(p)) = p

PrefixHttp == <<"h", "t", "t", "p", ":", "/", "/">>
PrefixHttps == <<"h", "t", "t", "p", "s", ":", "/", "/">>

Contains(s, p) == \E k \in 0..(Len(s) - Len(p)) : SubSeq(s, k + 1, k + Len(p)) = p

\* Variant: a pattern that takes any scheme, "://" after at least one character.
IsValidUrlAnyScheme(u) == Len(u) > 0 /\ Contains(Tail(u), <<":", "/", "/">>)

\* /^(https?:\/\/)/i.test(u): the i flag makes the match ignore letter case.
IsValidUrl(u) ==
    StartsWith(ToLowerCase(u), PrefixHttp) \/ StartsWith(ToLowerCase(u), PrefixHttps)

\* ------------------------------------------------------------------ rows
Row(i, u, t, l, c, ts, f) ==
    [id |-> i, user_id |-> u, title |-> t, url |-> l, category |-> c,
     created_at |-> ts, is_favorite |-> f]

InitialStore ==
    { Row(1, SessionUser, TxtGo, UrlHttp, "Work", 1, TRUE),
      Row(2, OtherUser, TxtGo, UrlHttps, "General", 2, FALSE) }

FirstFreeId == Cardinality(InitialStore) + 1

Ids(list) == {list[i].id : i \in 1..Len(list)}

RECURSIVE OrderDesc(_)
\* .order("created_at", { ascending: false })
OrderDesc(rows) ==
    IF rows = {} THEN <<>>
    ELSE LET top == CHOOSE r \in rows : \A q \in rows : q.created_at <= r.created_at
         IN <<top>> \o OrderDesc(rows \ {top})


\* ------------------------------------------------------------------ store
\* create policy ... using (auth.uid() = user_id): the request runs as the
\* session's user and reaches only that user's rows.
Permitted(r) == r.user_id = SessionUser

SelectRows(uid) == OrderDesc({r \in store : Permitted(r) /\ r.user_id = uid})

Matching(id) == {r \in store : Permitted(r) /\ r.id = id}

InsertedRow(t) ==
    Row(nextId, t.uid, t.title, t.url, t.category, nextId, FALSE)

\* Variant: the payload carries the handler's category as well.
UpdatedRowWithCategory(r, t) ==
    [r EXCEPT !.title = t.title, !.url = t.url, !.category = t.category]

\* .update({ title: editTitle, url: editUrl })
UpdatedRow(r, t) == [r EXCEPT !.title = t.title, !.url = t.url]

\* ------------------------------------------------------------------ tasks
\* A suspended handler: op and pc say where it waits, scope is the user_id its
\* pending request is filtered by (or owns the inserted row with), closure is
\* the bookmarks value of the render the handler was created in.
NewTask(tid, op, scope, id, cur, closure, t, u, c, uid) ==
    [tid |-> tid, op |-> op, pc |-> "sent", scope |-> scope, id |-> id, cur |-> cur,
     closure |-> closure, title |-> t, url |-> u, category |-> c, uid |-> uid,
     data |-> <<>>]

Served(t, rows) == [t EXCEPT !.pc = "replied", !.data = rows]

Failures == {"error", "throw"}
Outcomes == {"ok"} \cup Failures

\* The await of task t settles with outcome o: with the served result, or with
\* a failure of a request that the store did not serve.
Settles(t, o) == IF o = "ok" THEN t.pc = "replied" ELSE t.pc = "sent"

Mounted == route = "/"
Interactive == Mounted /\ ~loading

\* ------------------------------------------------------------------ list edits
\* Variant: the new row goes to the end of the list.
PrependAtEnd(row, list) == list \o <<row>>

\* setBookmarks([data[0], ...bookmarks])
Prepend(row, list) == <<row>> \o list

\* prev.map((b) => (b.id === id ? { ...b, is_favorite: v } : b))
WithFavorite(list, id, v) ==
    [i \in 1..Len(list) |->
        IF list[i].id = id THEN [list[i] EXCEPT !.is_favorite = v] ELSE list[i]]

\* bookmarks.filter((b) => b.id !== id)
Without(list, id) == SelectSeq(list, LAMBDA b : b.id # id)


\* ------------------------------------------------------------------ Init
Init ==
    /\ route = "/"
    /\ sessionPc = "idle"
    /\ sessionChecks = 0
    /\ loading = TRUE
    /\ userId = Null
    /\ email = Null
    /\ bookmarks = <<>>
    /\ title = Empty
    /\ url = Empty
    /\ category = "General"
    /\ formError = ""
    /\ adding = FALSE
    /\ editingId = NoId
    /\ editTitle = Empty
    /\ editUrl = Empty
    /\ updating = FALSE
    /\ searchTerm = Empty
    /\ filterCategory = "All"
    /\ sortOption = "newest"
    /\ favoritesFilter = "all"
    /\ store = InitialStore
    /\ nextId = FirstFreeId
    /\ tasks = {}
    /\ opCount = 0
    /\ last = "mount"

\* ------------------------------------------------------------------ session
\* The mount effect: checkUser() up to its await of supabase.auth.getSession().
MountEffect ==
    /\ Mounted
    /\ sessionPc = "idle"
    /\ sessionPc' = "pending"
    /\ sessionChecks' = sessionChecks + 1
    /\ last' = "other"
    /\ UNCHANGED <<route, loading, userId, email, bookmarks, store, nextId, tasks, opCount>>
    /\ UNCHANGED formVars
    /\ UNCHANGED editVars
    /\ UNCHANGED viewVars

\* Variant: setLoading(false) in a finally block, reached on every branch.
LoadingAfterFinally(outcome) == FALSE

\* setLoading(false) is reached on the session branch only.
LoadingAfterCheck(outcome) == IF outcome = "session" THEN FALSE ELSE loading

\* checkUser after getSession() settles, and the fetch effect that runs when
\* userId changes: if (!userId) return; otherwise the List request is sent.
CheckUser(outcome) ==
    /\ Mounted
    /\ sessionPc = "pending"
    /\ sessionPc' = "done"
    /\ loading' = LoadingAfterCheck(outcome)
    /\ IF outcome = "session"
       THEN /\ userId' = SessionUser
            /\ email' = SessionEmail
            /\ route' = route
            /\ tasks' = tasks \cup
                 {NewTask(0, "list", SessionUser, NoId, FALSE, <<>>, Empty, Empty, Null,
                          SessionUser)}
            /\ last' = "session_ok"
       ELSE /\ route' = "/login"
            /\ UNCHANGED <<userId, email, tasks>>
            /\ last' = "session_failed"
    /\ UNCHANGED <<sessionChecks, bookmarks, store, nextId, opCount>>
    /\ UNCHANGED formVars
    /\ UNCHANGED editVars
    /\ UNCHANGED viewVars

\* ------------------------------------------------------------------ the store serves a request
ServeSelect(t) ==
    /\ tasks' = (tasks \ {t}) \cup {Served(t, SelectRows(t.scope))}
    /\ UNCHANGED <<store, nextId>>

ServeInsert(t) ==
    /\ t.scope = SessionUser
    /\ store' = store \cup {InsertedRow(t)}
    /\ nextId' = nextId + 1
    /\ tasks' = (tasks \ {t}) \cup {Served(t, <<InsertedRow(t)>>)}

ServeUpdate(t) ==
    /\ store' = (store \ Matching(t.id)) \cup {UpdatedRow(r, t) : r \in Matching(t.id)}
    /\ tasks' = (tasks \ {t}) \cup
         {Served(t, OrderDesc({UpdatedRow(r, t) : r \in Matching(t.id)}))}
    /\ UNCHANGED nextId

ServeToggle(t) ==
    /\ store' = (store \ Matching(t.id)) \cup
         {[r EXCEPT !.is_favorite = ~t.cur] : r \in Matching(t.id)}
    /\ tasks' = (tasks \ {t}) \cup {Served(t, <<>>)}
    /\ UNCHANGED nextId

ServeDelete(t) ==
    /\ store' = store \ Matching(t.id)
    /\ tasks' = (tasks \ {t}) \cup {Served(t, <<>>)}
    /\ UNCHANGED nextId

ServeRequest(t) ==
    /\ t.pc = "sent"
    /\ CASE t.op \in {"list", "refetch"} -> ServeSelect(t)
         [] t.op = "add" -> ServeInsert(t)
         [] t.op = "update" -> ServeUpdate(t)
         [] t.op = "toggle" -> ServeToggle(t)
         [] t.op = "delete" -> ServeDelete(t)
    /\ last' = "other"
    /\ UNCHANGED <<bookmarks, opCount>>
    /\ UNCHANGED authVars
    /\ UNCHANGED formVars
    /\ UNCHANGED editVars
    /\ UNCHANGED viewVars

\* ------------------------------------------------------------------ fetchBookmarks
\* Variant: no return on error, so setBookmarks(data || []) stores [].
AfterFailedFetchCleared == <<>>

\* if (error) return, and the catch block: the list a failed fetch leaves behind.
AfterFailedFetch == bookmarks

\* Variant: a result that arrives after a refetch was applied is dropped.
FetchedListIfNewer(t) == IF last = "refetch_ok" THEN bookmarks ELSE t.data

\* setBookmarks(data || []): the result replaces the list, whatever the list holds.
FetchedList(t) == t.data

\* fetchBookmarks after its await: setBookmarks(data || []) unless the call failed.
FetchBookmarksDone(t, o) ==
    /\ Mounted
    /\ t.op = "list" /\ Settles(t, o)
    /\ tasks' = tasks \ {t}
    /\ IF o = "ok"
       THEN bookmarks' = FetchedList(t) /\ last' = "fetch_ok"
       ELSE bookmarks' = AfterFailedFetch /\ last' = "fetch_failed"
    /\ UNCHANGED <<store, nextId, opCount>>
    /\ UNCHANGED authVars
    /\ UNCHANGED formVars
    /\ UNCHANGED editVars
    /\ UNCHANGED viewVars

\* ------------------------------------------------------------------ add form
\* onChange: setTitle(e.target.value); if (formError) setFormError("")
SetTitle(v) ==
    /\ Interactive
    /\ v # title
    /\ title' = v
    /\ formError' = ""
    /\ last' = "other"
    /\ UNCHANGED <<url, category, adding, bookmarks, store, nextId, tasks, opCount>>
    /\ UNCHANGED authVars
    /\ UNCHANGED editVars
    /\ UNCHANGED viewVars

SetUrl(v) ==
    /\ Interactive
    /\ v # url
    /\ url' = v
    /\ formError' = ""
    /\ last' = "other"
    /\ UNCHANGED <<title, category, adding, bookmarks, store, nextId, tasks, opCount>>
    /\ UNCHANGED authVars
    /\ UNCHANGED editVars
    /\ UNCHANGED viewVars

\* Variant: the Add button does not look at the adding flag.
AddDisabledIgnoringAdding == title = Empty \/ url = Empty \/ updating

\* disabled={!title || !url || updating || adding}
AddDisabled == title = Empty \/ url = Empty \/ updating \/ adding

\* The validation of addBookmark: the error it sets, or "" when the add goes on.
AddRejection ==
    IF title = Empty \/ url = Empty THEN ErrRequired
    ELSE IF ~IsValidUrl(url) THEN ErrUrl
    ELSE IF userId = Null THEN ErrAuth
    ELSE ""

\* Variant: the list at the time the insert completes.
AddBaseCurrent(t) == bookmarks

\* The list addBookmark prepends to: the bookmarks of the render it was created in.
AddBase(t) == t.closure

\* addBookmark up to its await.
AddBookmark ==
    /\ Interactive
    /\ ~AddDisabled
    /\ IF AddRejection # ""
       THEN /\ formError' = AddRejection
            /\ last' = "add_rejected"
            /\ UNCHANGED <<adding, tasks, opCount>>
       ELSE /\ opCount < MaxOps
            /\ formError' = ""
            /\ adding' = TRUE
            /\ opCount' = opCount + 1
            /\ tasks' = tasks \cup
                 {NewTask(opCount + 1, "add", userId, NoId, FALSE, bookmarks,
                          title, url, category, userId)}
            /\ last' = "add_sent"
    /\ UNCHANGED <<title, url, category, bookmarks, store, nextId>>
    /\ UNCHANGED authVars
    /\ UNCHANGED editVars
    /\ UNCHANGED viewVars

\* addBookmark after its await, finally block included.
AddBookmarkDone(t, o) ==
    /\ Mounted
    /\ t.op = "add" /\ Settles(t, o)
    /\ tasks' = tasks \ {t}
    /\ adding' = FALSE
    /\ CASE o = "error" ->
              /\ formError' = ErrInsert
              /\ last' = "add_failed"
              /\ UNCHANGED <<bookmarks, title, url>>
         [] o = "throw" ->
              /\ formError' = ErrUnexpected
              /\ last' = "add_failed"
              /\ UNCHANGED <<bookmarks, title, url>>
         [] o = "ok" /\ Len(t.data) > 0 ->
              /\ bookmarks' = Prepend(t.data[1], AddBase(t))
              /\ title' = Empty
              /\ url' = Empty
              /\ formError' = ""
              /\ last' = "add_ok"
         [] OTHER ->
              /\ last' = "add_empty"
              /\ UNCHANGED <<bookmarks, title, url, formError>>
    /\ UNCHANGED <<category, store, nextId, opCount>>
    /\ UNCHANGED authVars
    /\ UNCHANGED editVars
    /\ UNCHANGED viewVars


\* ------------------------------------------------------------------ cards
\* A card shows Edit, Delete and the star unless it is the one in edit mode.
CardButtons(i) == i \in 1..Len(bookmarks) /\ editingId # bookmarks[i].id

\* The card in edit mode is rendered: its inputs, Save and Cancel can be used.
EditCardShown == editingId \in Ids(bookmarks)

\* Variant: Edit sets the target and leaves the edit fields as they are.
EditKeepsFields(i) ==
    /\ Interactive
    /\ CardButtons(i)
    /\ editingId' = bookmarks[i].id
    /\ last' = "other"
    /\ UNCHANGED <<editTitle, editUrl, updating, bookmarks, store, nextId, tasks, opCount>>
    /\ UNCHANGED authVars
    /\ UNCHANGED formVars
    /\ UNCHANGED viewVars

\* Edit: setEditingId(b.id); setEditTitle(b.title); setEditUrl(b.url)
Edit(i) ==
    /\ Interactive
    /\ CardButtons(i)
    /\ editingId' = bookmarks[i].id
    /\ editTitle' = bookmarks[i].title
    /\ editUrl' = bookmarks[i].url
    /\ last' = "other"
    /\ UNCHANGED <<updating, bookmarks, store, nextId, tasks, opCount>>
    /\ UNCHANGED authVars
    /\ UNCHANGED formVars
    /\ UNCHANGED viewVars

SetEditTitle(v) ==
    /\ Interactive
    /\ EditCardShown
    /\ v # editTitle
    /\ editTitle' = v
    /\ last' = "other"
    /\ UNCHANGED <<editingId, editUrl, updating, bookmarks, store, nextId, tasks, opCount>>
    /\ UNCHANGED authVars
    /\ UNCHANGED formVars
    /\ UNCHANGED viewVars

SetEditUrl(v) ==
    /\ Interactive
    /\ EditCardShown
    /\ v # editUrl
    /\ editUrl' = v
    /\ last' = "other"
    /\ UNCHANGED <<editingId, editTitle, updating, bookmarks, store, nextId, tasks, opCount>>
    /\ UNCHANGED authVars
    /\ UNCHANGED formVars
    /\ UNCHANGED viewVars

\* Cancel: setEditingId(null); setEditTitle(""); setEditUrl("")
CancelEdit ==
    /\ Interactive
    /\ EditCardShown
    /\ editingId' = NoId
    /\ editTitle' = Empty
    /\ editUrl' = Empty
    /\ last' = "other"
    /\ UNCHANGED <<updating, bookmarks, store, nextId, tasks, opCount>>
    /\ UNCHANGED authVars
    /\ UNCHANGED formVars
    /\ UNCHANGED viewVars

\* ------------------------------------------------------------------ updateBookmark
\* disabled={updating || !editTitle || !editUrl}
SaveDisabled == updating \/ editTitle = Empty \/ editUrl = Empty

\* if (!editingId || !editTitle || !editUrl || !userId) return
UpdateMissingData ==
    editingId = NoId \/ editTitle = Empty \/ editUrl = Empty \/ userId = Null

\* The user_id filter of a request that writes one row by id: the update, the
\* favorite update and the delete chain .eq("id", ...) and nothing else.
RowWriteScope(uid) == Null

\* updateBookmark up to its first await.
UpdateBookmark ==
    /\ Interactive
    /\ EditCardShown
    /\ ~SaveDisabled
    /\ IF UpdateMissingData
       THEN /\ last' = "update_skipped"
            /\ UNCHANGED <<updating, tasks, opCount>>
       ELSE /\ opCount < MaxOps
            /\ updating' = TRUE
            /\ opCount' = opCount + 1
            /\ tasks' = tasks \cup
                 {NewTask(opCount + 1, "update", RowWriteScope(userId), editingId, FALSE,
                          bookmarks, editTitle, editUrl, Null, userId)}
            /\ last' = "update_sent"
    /\ UNCHANGED <<editingId, editTitle, editUrl, bookmarks, store, nextId>>
    /\ UNCHANGED authVars
    /\ UNCHANGED formVars
    /\ UNCHANGED viewVars

\* Variant: the result of the update is not looked at.
ReturnedRowUnchecked(t, o) == TRUE

\* if (error) return ... if (data && data.length > 0): the update gave a row back.
ReturnedRow(t, o) == o = "ok" /\ Len(t.data) > 0

\* updateBookmark between its two awaits: a failure or an empty result ends the
\* handler (finally: setUpdating(false)); a returned row clears the edit state
\* and sends the refetch, filtered by the userId the handler closed over.
UpdateBookmarkDone(t, o) ==
    /\ Mounted
    /\ t.op = "update" /\ Settles(t, o)
    /\ IF ReturnedRow(t, o)
       THEN /\ editingId' = NoId
            /\ editTitle' = Empty
            /\ editUrl' = Empty
            /\ tasks' = (tasks \ {t}) \cup
                 {[t EXCEPT !.op = "refetch", !.pc = "sent", !.scope = t.uid, !.data = <<>>]}
            /\ last' = "update_ok"
            /\ UNCHANGED updating
       ELSE /\ tasks' = tasks \ {t}
            /\ updating' = FALSE
            /\ last' = IF o = "ok" THEN "update_empty" ELSE "update_failed"
            /\ UNCHANGED <<editingId, editTitle, editUrl>>
    /\ UNCHANGED <<bookmarks, store, nextId, opCount>>
    /\ UNCHANGED authVars
    /\ UNCHANGED formVars
    /\ UNCHANGED viewVars

\* Variant: the refetch result is dropped and the list kept.
RefetchedListPatched(t) == bookmarks

\* if (bookmarksData) setBookmarks(bookmarksData)
RefetchedList(t) == t.data

\* Variant: the flag is cleared on the success path only.
UpdatingAfterRefetchOkOnly(o) == o # "ok" /\ updating

\* finally { setUpdating(false) }: runs on every outcome of the refetch.
UpdatingAfterRefetch(o) == FALSE

\* updateBookmark after the refetch: setBookmarks(bookmarksData) unless it failed.
RefetchDone(t, o) ==
    /\ Mounted
    /\ t.op = "refetch" /\ Settles(t, o)
    /\ tasks' = tasks \ {t}
    /\ updating' = UpdatingAfterRefetch(o)
    /\ IF o = "ok"
       THEN bookmarks' = RefetchedList(t) /\ last' = "refetch_ok"
       ELSE bookmarks' = bookmarks /\ last' = "refetch_failed"
    /\ UNCHANGED <<editingId, editTitle, editUrl, store, nextId, opCount>>
    /\ UNCHANGED authVars
    /\ UNCHANGED formVars
    /\ UNCHANGED viewVars

\* ------------------------------------------------------------------ toggleFavorite
\* The value the optimistic step writes.
OptimisticValue(cur) == ~cur

\* Variant: the failure branches write !current again.
RevertValueFlipped(cur) == ~cur

\* The value the failure branches put back.
RevertValue(cur) == cur

\* toggleFavorite(b.id, b.is_favorite ?? false) up to its await.
ToggleFavorite(i) ==
    /\ Interactive
    /\ CardButtons(i)
    /\ opCount < MaxOps
    /\ bookmarks' = WithFavorite(bookmarks, bookmarks[i].id,
                                 OptimisticValue(bookmarks[i].is_favorite))
    /\ opCount' = opCount + 1
    /\ tasks' = tasks \cup
         {NewTask(opCount + 1, "toggle", RowWriteScope(userId), bookmarks[i].id,
                  bookmarks[i].is_favorite, bookmarks, Empty, Empty, Null, userId)}
    /\ last' = "toggle_sent"
    /\ UNCHANGED <<store, nextId>>
    /\ UNCHANGED authVars
    /\ UNCHANGED formVars
    /\ UNCHANGED editVars
    /\ UNCHANGED viewVars

\* toggleFavorite after its await: a failure maps the current list back.
ToggleFavoriteDone(t, o) ==
    /\ Mounted
    /\ t.op = "toggle" /\ Settles(t, o)
    /\ tasks' = tasks \ {t}
    /\ IF o = "ok"
       THEN bookmarks' = bookmarks /\ last' = "toggle_ok"
       ELSE /\ bookmarks' = WithFavorite(bookmarks, t.id, RevertValue(t.cur))
            /\ last' = "toggle_failed"
    /\ UNCHANGED <<store, nextId, opCount>>
    /\ UNCHANGED authVars
    /\ UNCHANGED formVars
    /\ UNCHANGED editVars
    /\ UNCHANGED viewVars

\* ------------------------------------------------------------------ deleteBookmark
\* The list deleteBookmark filters: the bookmarks of the render it was created in.
DeleteBase(t) == t.closure

\* deleteBookmark(b.id) up to its await.
DeleteBookmark(i) ==
    /\ Interactive
    /\ CardButtons(i)
    /\ opCount < MaxOps
    /\ opCount' = opCount + 1
    /\ tasks' = tasks \cup
         {NewTask(opCount + 1, "delete", RowWriteScope(userId), bookmarks[i].id, FALSE,
                  bookmarks, Empty, Empty, Null, userId)}
    /\ last' = "delete_sent"
    /\ UNCHANGED <<bookmarks, store, nextId>>
    /\ UNCHANGED authVars
    /\ UNCHANGED formVars
    /\ UNCHANGED editVars
    /\ UNCHANGED viewVars

\* Variant: the entry is removed whether or not the delete failed.
AfterFailedDeleteRemoved(t) == Without(bookmarks, t.id)

\* The list a failed delete leaves behind.
AfterFailedDelete(t) == bookmarks

\* deleteBookmark after its await.
DeleteBookmarkDone(t, o) ==
    /\ Mounted
    /\ t.op = "delete" /\ Settles(t, o)
    /\ tasks' = tasks \ {t}
    /\ IF o = "ok"
       THEN bookmarks' = Without(DeleteBase(t), t.id) /\ last' = "delete_ok"
       ELSE bookmarks' = AfterFailedDelete(t) /\ last' = "delete_failed"
    /\ UNCHANGED <<store, nextId, opCount>>
    /\ UNCHANGED authVars
    /\ UNCHANGED formVars
    /\ UNCHANGED editVars
    /\ UNCHANGED viewVars

\* ------------------------------------------------------------------ specification
SessionOutcomes == {"session", "none", "error", "throw"}

Next ==
    \/ MountEffect
    \/ \E o \in SessionOutcomes : CheckUser(o)
    \/ \E t \in tasks : ServeRequest(t)
    \/ \E t \in tasks, o \in Outcomes : FetchBookmarksDone(t, o)
    \/ \E v \in TitleInputs : SetTitle(v)
    \/ \E v \in UrlInputs : SetUrl(v)
    \/ AddBookmark
    \/ \E t \in tasks, o \in Outcomes : AddBookmarkDone(t, o)
    \/ \E i \in 1..Len(bookmarks) : Edit(i)
    \/ \E v \in EditTitleInputs : SetEditTitle(v)
    \/ \E v \in EditUrlInputs : SetEditUrl(v)
    \/ CancelEdit
    \/ UpdateBookmark
    \/ \E t \in tasks, o \in Outcomes : UpdateBookmarkDone(t, o)
    \/ \E t \in tasks, o \in Outcomes : RefetchDone(t, o)
    \/ \E i \in 1..Len(bookmarks) : ToggleFavorite(i)
    \/ \E t \in tasks, o \in Outcomes : ToggleFavoriteDone(t, o)
    \/ \E i \in 1..Len(bookmarks) : DeleteBookmark(i)
    \/ \E t \in tasks, o \in Outcomes : DeleteBookmarkDone(t, o)

Spec == Init /\ [][Next]_vars

\* Home when the session check finds the session and every store request is
\* served and returns its result: no error result and no exception anywhere.
SuccessNext ==
    \/ MountEffect
    \/ CheckUser("session")
    \/ \E t \in tasks : ServeRequest(t)
    \/ \E t \in tasks : FetchBookmarksDone(t, "ok")
    \/ \E v \in TitleInputs : SetTitle(v)
    \/ \E v \in UrlInputs : SetUrl(v)
    \/ AddBookmark
    \/ \E t \in tasks : AddBookmarkDone(t, "ok")
    \/ \E i \in 1..Len(bookmarks) : Edit(i)
    \/ \E v \in EditTitleInputs : SetEditTitle(v)
    \/ \E v \in EditUrlInputs : SetEditUrl(v)
    \/ CancelEdit
    \/ UpdateBookmark
    \/ \E t \in tasks : UpdateBookmarkDone(t, "ok")
    \/ \E t \in tasks : RefetchDone(t, "ok")
    \/ \E i \in 1..Len(bookmarks) : ToggleFavorite(i)
    \/ \E t \in tasks : ToggleFavoriteDone(t, "ok")
    \/ \E i \in 1..Len(bookmarks) : DeleteBookmark(i)
    \/ \E t \in tasks : DeleteBookmarkDone(t, "ok")

SuccessSpec == Init /\ [][SuccessNext]_vars

\* Every store call completes: an await that can settle does settle, with a
\* result, an error result or an exception.
LiveSpec ==
    /\ Init
    /\ [][Next]_vars
    /\ WF_vars(\E t \in tasks, o \in Outcomes : AddBookmarkDone(t, o))
    /\ WF_vars(\E t \in tasks, o \in Outcomes : UpdateBookmarkDone(t, o))
    /\ WF_vars(\E t \in tasks, o \in Outcomes : RefetchDone(t, o))

\* Home with toggleFavorite as the only store operation the user starts: the
\* session check, the initial fetch, the star buttons, and edit mode entered
\* and left without saving.
ToggleNext ==
    \/ MountEffect
    \/ \E o \in SessionOutcomes : CheckUser(o)
    \/ \E t \in tasks : ServeRequest(t)
    \/ \E t \in tasks, o \in Outcomes : FetchBookmarksDone(t, o)
    \/ \E i \in 1..Len(bookmarks) : Edit(i)
    \/ \E v \in EditTitleInputs : SetEditTitle(v)
    \/ \E v \in EditUrlInputs : SetEditUrl(v)
    \/ CancelEdit
    \/ \E i \in 1..Len(bookmarks) : ToggleFavorite(i)
    \/ \E t \in tasks, o \in Outcomes : ToggleFavoriteDone(t, o)

ToggleSpec == Init /\ [][ToggleNext]_vars


\* ------------------------------------------------------------------ optional fields
\* category?, created_at? and is_favorite? may be absent from an entry.
Has(b, f) == f \in DOMAIN b

\* bk.category ?? "General"
EffectiveCategory(b) == IF Has(b, "category") THEN b.category ELSE "General"

\* The truthiness of bk.is_favorite.
IsFavorite(b) == Has(b, "is_favorite") /\ b.is_favorite

\* Variant: a missing created_at counts as later than every timestamp.
TimeOfMissingLatest(b) == IF Has(b, "created_at") THEN b.created_at ELSE 9

\* new Date(b.created_at ?? 0).getTime()
TimeOf(b) == IF Has(b, "created_at") THEN b.created_at ELSE 0

\* ------------------------------------------------------------------ text of the list view
RECURSIVE TrimStart(_)
TrimStart(s) == IF s # <<>> /\ Head(s) = " " THEN TrimStart(Tail(s)) ELSE s

Reverse(s) == [i \in 1..Len(s) |-> s[Len(s) + 1 - i]]

\* String.prototype.trim(): white space removed at both ends.
Trim(s) == Reverse(TrimStart(Reverse(TrimStart(s))))

Letters ==
    <<"a", "b", "c", "d", "e", "f", "g", "h", "i", "j", "k", "l", "m",
      "n", "o", "p", "q", "r", "s", "t", "u", "v", "w", "x", "y", "z">>

\* The collation weight of a character: letters in alphabetical order, upper
\* and lower case alike, after every other character.
Weight(c) ==
    IF \E i \in 1..Len(Letters) : Letters[i] = LowerChar(c)
    THEN CHOOSE i \in 1..Len(Letters) : Letters[i] = LowerChar(c)
    ELSE 0

RECURSIVE CompareWeights(_, _)
CompareWeights(s, t) ==
    IF s = <<>> /\ t = <<>> THEN 0
    ELSE IF s = <<>> THEN -1
    ELSE IF t = <<>> THEN 1
    ELSE IF Weight(Head(s)) < Weight(Head(t)) THEN -1
    ELSE IF Weight(Head(s)) > Weight(Head(t)) THEN 1
    ELSE CompareWeights(Tail(s), Tail(t))

RECURSIVE CompareCase(_, _)
\* Texts of equal weights: at the first difference the lower-case letter is first.
CompareCase(s, t) ==
    IF s = <<>> \/ t = <<>> THEN 0
    ELSE IF Head(s) = Head(t) THEN CompareCase(Tail(s), Tail(t))
    ELSE IF Head(s) = LowerChar(Head(s)) THEN -1
    ELSE 1

\* a.localeCompare(b): negative, zero or positive.
LocaleCompare(s, t) ==
    IF CompareWeights(s, t) # 0 THEN CompareWeights(s, t) ELSE CompareCase(s, t)

\* ------------------------------------------------------------------ derivation pipeline
\* const q = searchTerm.trim().toLowerCase()
Query(term) == ToLowerCase(Trim(term))

\* Variant: the search text is lower-cased but not trimmed.
MatchesUntrimmed(bk, term) ==
    \/ Contains(ToLowerCase(bk.title), ToLowerCase(term))
    \/ Contains(ToLowerCase(bk.url), ToLowerCase(term))

\* bk.title.toLowerCase().includes(q) || bk.url.toLowerCase().includes(q)
Matches(bk, term) ==
    \/ Contains(ToLowerCase(bk.title), Query(term))
    \/ Contains(ToLowerCase(bk.url), Query(term))

\* const searched = q ? bookmarks.filter(...) : bookmarks
Searched(list, term) ==
    IF Query(term) # <<>> THEN SelectSeq(list, LAMBDA bk : Matches(bk, term)) ELSE list

\* Variant: the category is compared as it is, an absent one matching nothing.
InCategoryRaw(bk, cat) == Has(bk, "category") /\ bk.category = cat

\* (bk.category ?? "General") === filterCategory
InCategory(bk, cat) == EffectiveCategory(bk) = cat

\* const filtered = filterCategory === "All" ? searched : searched.filter(...)
Filtered(list, cat) ==
    IF cat = "All" THEN list ELSE SelectSeq(list, LAMBDA bk : InCategory(bk, cat))

\* Variant: the entries that are not favorites are kept.
KeptByFavoritesInverted(bk) == ~IsFavorite(bk)

\* filtered.filter((bk) => bk.is_favorite)
KeptByFavorites(bk) == IsFavorite(bk)

\* const favFiltered = favoritesFilter === 'all' ? filtered : filtered.filter(...)
FavFiltered(list, fav) ==
    IF fav = "all" THEN list ELSE SelectSeq(list, LAMBDA bk : KeptByFavorites(bk))

\* Variant: newest compares as oldest does.
CompareAscending(a, b, opt) ==
    CASE opt \in {"newest", "oldest"} -> TimeOf(a) - TimeOf(b)
      [] opt \in {"az", "za"} -> LocaleCompare(a.title, b.title)
      [] OTHER -> 0

\* The comparator handed to sort().
Compare(a, b, opt) ==
    CASE opt = "newest" -> TimeOf(b) - TimeOf(a)
      [] opt = "oldest" -> TimeOf(a) - TimeOf(b)
      [] opt = "az" -> LocaleCompare(a.title, b.title)
      [] opt = "za" -> LocaleCompare(b.title, a.title)
      [] OTHER -> 0

RECURSIVE InsertSorted(_, _, _)
\* x is placed behind every entry that does not compare greater than it.
InsertSorted(x, s, opt) ==
    IF s = <<>> THEN <<x>>
    ELSE IF Compare(Head(s), x, opt) > 0 THEN <<x>> \o s
    ELSE <<Head(s)>> \o InsertSorted(x, Tail(s), opt)

RECURSIVE Sorted(_, _)
\* .sort(comparator): stable, entries that compare equal keep their order.
Sorted(list, opt) ==
    IF list = <<>> THEN <<>>
    ELSE InsertSorted(list[Len(list)], Sorted(SubSeq(list, 1, Len(list) - 1), opt), opt)

\* The sequence of cards the list view renders.
Derived(list, term, cat, fav, opt) ==
    Sorted(FavFiltered(Filtered(Searched(list, term), cat), fav), opt)

Visible == Derived(bookmarks, searchTerm, filterCategory, favoritesFilter, sortOption)

\* Variant: sort() is called on favFiltered itself, which is the bookmarks
\* array whenever no stage has filtered.
ListSortedInPlace(list, term, cat, fav, opt) ==
    IF Query(term) = <<>> /\ cat = "All" /\ fav = "all" THEN Sorted(list, opt) ELSE list

\* favFiltered.slice().sort(...): the sort works on a copy, so rendering leaves
\* the bookmarks array as it is.
ListAfterRender(list, term, cat, fav, opt) == list

\* Variant: the derivation is rendered whether or not the list is empty.
NoResultsShownAnyList == Interactive /\ Len(Visible) = 0

\* bookmarks.length === 0: "No bookmarks yet"
NoBookmarksShown == Interactive /\ Len(bookmarks) = 0

\* sorted.length === 0 in the non-empty branch: "No bookmarks found"
NoResultsShown == Interactive /\ Len(bookmarks) # 0 /\ Len(Visible) = 0

\* ------------------------------------------------------------------ summary
\* Dashboard: const totalBookmarks = bookmarks.length
TotalBookmarks(list) == Len(list)

\* bookmarks.filter((b) => b.is_favorite).length
TotalFavorites(list) == Len(SelectSeq(list, LAMBDA b : IsFavorite(b)))

\* Variant: the set is built from b.category, an absent one counting as itself.
TotalCategoriesRaw(list) ==
    Cardinality({IF Has(list[i], "category") THEN list[i].category ELSE "undefined" :
                   i \in 1..Len(list)})

\* new Set(bookmarks.map((b) => b.category ?? "General")).size
TotalCategoriesUsed(list) ==
    Cardinality({EffectiveCategory(list[i]) : i \in 1..Len(list)})

\* bookmarks[0]?.title ?? "-"
LatestBookmarkTitle(list) == IF Len(list) > 0 THEN list[1].title ELSE <<"-">>

Summary(list) ==
    <<TotalBookmarks(list), TotalFavorites(list), TotalCategoriesUsed(list),
      LatestBookmarkTitle(list)>>

\* ------------------------------------------------------------------ the list view on its own
\* The lists handed to the view: entries with and without the optional fields,
\* some with the same title, some with the same created_at.
TxtGoLower == <<"g", "o">>

ViewEntries ==
    { Row(1, SessionUser, TxtGo, UrlHttp, "Work", 1, TRUE),
      Row(3, SessionUser, TxtRust, UrlHttps, "General", 2, FALSE),
      Row(4, SessionUser, TxtGo, UrlUpper, "Study", 2, TRUE),
      Row(6, SessionUser, TxtGoLower, UrlHttp, "Work", 3, FALSE),
      [id |-> 5, user_id |-> SessionUser, title |-> TxtGoLower, url |-> UrlHttps] }

ViewLists ==
    {l \in UNION {[1..n -> ViewEntries] : n \in 0..MaxLen} :
        \A i, j \in 1..Len(l) : i # j => l[i].id # l[j].id}

\* What the user types into the search box and picks in the three selects.
SearchInputs == {Empty, <<" ">>, <<" ", "G", "o">>, <<"/", "a">>}
CategoryOptions == {"All", "Work", "Study", "Personal", "General"}
FavoritesOptions == {"all", "favorites"}
SortOptions == {"newest", "oldest", "az", "za"}

\* A sort key that is none of the four: the comparator falls through to return 0.
UnknownSortKey == "relevance"

\* Home in its ready state: session found, nothing in flight, a list in memory.
ViewInit ==
    /\ route = "/"
    /\ sessionPc = "done"
    /\ sessionChecks = 1
    /\ loading = FALSE
    /\ userId = SessionUser
    /\ email = SessionEmail
    /\ bookmarks \in ViewLists
    /\ title = Empty
    /\ url = Empty
    /\ category = "General"
    /\ formError = ""
    /\ adding = FALSE
    /\ editingId = NoId
    /\ editTitle = Empty
    /\ editUrl = Empty
    /\ updating = FALSE
    /\ searchTerm = Empty
    /\ filterCategory = "All"
    /\ sortOption = "newest"
    /\ favoritesFilter = "all"
    /\ store = InitialStore
    /\ nextId = FirstFreeId
    /\ tasks = {}
    /\ opCount = 0
    /\ last = "other"

\* The controls are rendered in the non-empty branch of the list view.
ControlsShown == Interactive /\ Len(bookmarks) # 0

ViewFrame ==
    /\ last' = "other"
    /\ UNCHANGED <<store, nextId, tasks, opCount>>
    /\ UNCHANGED authVars
    /\ UNCHANGED formVars
    /\ UNCHANGED editVars

\* setBookmarks(list) and the render that follows it.
ReplaceList(l) ==
    /\ Interactive
    /\ l # bookmarks
    /\ bookmarks' = ListAfterRender(l, searchTerm, filterCategory, favoritesFilter, sortOption)
    /\ UNCHANGED viewVars
    /\ ViewFrame

\* onChange={(e) => setSearchTerm(e.target.value)} and the render that follows.
SetSearchTerm(v) ==
    /\ ControlsShown
    /\ v # searchTerm
    /\ searchTerm' = v
    /\ bookmarks' = ListAfterRender(bookmarks, v, filterCategory, favoritesFilter, sortOption)
    /\ UNCHANGED <<filterCategory, sortOption, favoritesFilter>>
    /\ ViewFrame

SetFilterCategory(v) ==
    /\ ControlsShown
    /\ v # filterCategory
    /\ filterCategory' = v
    /\ bookmarks' = ListAfterRender(bookmarks, searchTerm, v, favoritesFilter, sortOption)
    /\ UNCHANGED <<searchTerm, sortOption, favoritesFilter>>
    /\ ViewFrame

SetFavoritesFilter(v) ==
    /\ ControlsShown
    /\ v # favoritesFilter
    /\ favoritesFilter' = v
    /\ bookmarks' = ListAfterRender(bookmarks, searchTerm, filterCategory, v, sortOption)
    /\ UNCHANGED <<searchTerm, filterCategory, sortOption>>
    /\ ViewFrame

SetSortOption(v) ==
    /\ ControlsShown
    /\ v # sortOption
    /\ sortOption' = v
    /\ bookmarks' = ListAfterRender(bookmarks, searchTerm, filterCategory, favoritesFilter, v)
    /\ UNCHANGED <<searchTerm, filterCategory, favoritesFilter>>
    /\ ViewFrame

ViewNext ==
    \/ \E l \in ViewLists : ReplaceList(l)
    \/ \E v \in SearchInputs : SetSearchTerm(v)
    \/ \E v \in CategoryOptions : SetFilterCategory(v)
    \/ \E v \in FavoritesOptions : SetFavoritesFilter(v)
    \/ \E v \in SortOptions : SetSortOption(v)

ViewSpec == ViewInit /\ [][ViewNext]_vars

\* ------------------------------------------------------------------ steps
\* The await of task t settled with the served result in this step.
SettledOk(t) == t \in tasks /\ t.pc = "replied" /\ \A n \in tasks' : n.tid # t.tid \/ n.op # t.op

\* The await of task t settled with an error result or an exception in this step.
SettledFailed(t) == t \in tasks /\ t.pc = "sent" /\ \A n \in tasks' : n.tid # t.tid \/ n.op # t.op

\* The store served the request of task t in this step.
ServedNow(t) ==
    /\ t \in tasks
    /\ t.pc = "sent"
    /\ \E n \in tasks' : n.tid = t.tid /\ n.op = t.op /\ n.pc = "replied"

\* Task t was created in this step.
Started(t) == t \in tasks' /\ t.pc = "sent" /\ \A n \in tasks : n.tid # t.tid

\* ------------------------------------------------------------------ claims

\* C1: when a Create completes successfully the list becomes the returned row
\* followed by every entry the list held just before the completion, in the
\* same order and unchanged, whatever else was in flight.
C1_PrependsToCurrentList ==
    [][\A t \in tasks :
         (t.op = "add" /\ SettledOk(t) /\ Len(t.data) > 0)
            => bookmarks' = <<t.data[1]>> \o bookmarks]_vars

\* C2: when a Delete(id) completes successfully the list has no entry with that
\* id, every other entry it held just before is still there unchanged, and
\* totalBookmarks is exactly one less than just before (the entry being in the
\* list just before), whatever else was in flight.
C2_DeleteRemovesExactlyOne ==
    [][\A t \in tasks :
         (t.op = "delete" /\ SettledOk(t))
            => /\ t.id \notin Ids(bookmarks')
               /\ \A i \in 1..Len(bookmarks) :
                    bookmarks[i].id # t.id
                       => \E j \in 1..Len(bookmarks') : bookmarks'[j] = bookmarks[i]
               /\ t.id \in Ids(bookmarks)
                     => TotalBookmarks(bookmarks') = TotalBookmarks(bookmarks) - 1]_vars

\* Entry i of list b is entry i of list a with is_favorite set to v and every
\* other field as it was.
C3_OnlyFavoriteSet(a, b, i, v) ==
    /\ b[i].is_favorite = v
    /\ [b[i] EXCEPT !.is_favorite = a[i].is_favorite] = a[i]

\* List b is list a except that the entries with this id have is_favorite = v.
C3_OnlyEntryTouched(a, b, id, v) ==
    /\ Len(b) = Len(a)
    /\ \A i \in 1..Len(a) :
         IF a[i].id = id THEN C3_OnlyFavoriteSet(a, b, i, v) ELSE b[i] = a[i]

\* C3: ToggleFavorite(id, current) sets is_favorite of that entry to !current in
\* the step that sends the request; a failed request sets it back to current;
\* both steps leave the entry's other fields and all other entries unchanged.
C3_OptimisticToggleAndRevert ==
    [][/\ \A t \in tasks' :
            (t.op = "toggle" /\ Started(t))
               => C3_OnlyEntryTouched(bookmarks, bookmarks', t.id, ~t.cur)
       /\ \A t \in tasks :
            (t.op = "toggle" /\ SettledFailed(t))
               => C3_OnlyEntryTouched(bookmarks, bookmarks', t.id, t.cur)]_vars

\* C3 witness: a toggle has failed and been reverted in a list of two entries.
C3_Witness == last = "toggle_failed" /\ Len(bookmarks) > 1

\* The add click ran addBookmark in this step.
C4_AddClicked == last' \in {"add_rejected", "add_sent"}

C4_Rejected ==
    /\ formError' # ""
    /\ tasks' = tasks
    /\ ~adding /\ ~adding'
    /\ bookmarks' = bookmarks

C6_FailedUpdateKeepsEditState ==
    [][\A t \in tasks :
         (t.op = "update" /\ SettledFailed(t))
            => UNCHANGED <<editingId, editTitle, editUrl, bookmarks>>]_vars

\* C6 witness: an Update has failed and the edit fields are still populated.
C6_Witness ==
    last = "update_failed" /\ editingId # NoId /\ editTitle # Empty /\ editUrl # Empty

\* C7: when a Delete fails the list is unchanged.
C7_FailedDeleteKeepsList ==
    [][\A t \in tasks :
         (t.op = "delete" /\ SettledFailed(t)) => bookmarks' = bookmarks]_vars

\* C7 witness: a Delete has failed and its entry is still in the list.
C7_Witness == last = "delete_failed" /\ 1 \in Ids(bookmarks) /\ opCount = 1

\* C8: when a List fetch fails, the initial one or the refetch after an Update,
\* the list keeps its value.
C8_FailedFetchKeepsList ==
    [][\A t \in tasks :
         (t.op \in {"list", "refetch"} /\ SettledFailed(t)) => bookmarks' = bookmarks]_vars

\* C8 witness: a fetch has failed while the list held entries.
C8_Witness == last \in {"fetch_failed", "refetch_failed"} /\ bookmarks # <<>>

\* C9: a session check that fails or finds no session sends the view to /login
\* with loading still true, userId null, no store request and a single session
\* check; loading = false implies userId is set; every store request was sent
\* with userId set.
C9_UnauthenticatedStaysOut ==
    /\ last = "session_failed" => route = "/login"
    /\ route = "/login"
          => loading /\ userId = Null /\ tasks = {} /\ opCount = 0 /\ bookmarks = <<>>
    /\ sessionChecks <= 1
    /\ ~loading => userId # Null
    /\ \A t \in tasks : userId # Null /\ t.uid = userId

\* C9 witness: the session check has failed and the view is at /login.
C9_Witness == last = "session_failed" /\ route = "/login" /\ loading /\ sessionChecks = 1

\* C10: every store request carries user_id equal to the session's userId, as
\* an equality filter or as the owner of the inserted row.
C10_EveryRequestScoped == \A t \in tasks : t.scope = userId

\* The url starts with http:// or https://, letter case ignored as addBookmark
\* ignores it.
C11_HasSchemePrefix(u) ==
    StartsWith(ToLowerCase(u), PrefixHttp) \/ StartsWith(ToLowerCase(u), PrefixHttps)

\* C11: in every reachable state the url of every Create and Update request the
\* client has sent, and of every row of the user in the store, starts with the
\* scheme prefix http:// or https://.
C11_WrittenUrlsHaveScheme ==
    /\ \A t \in tasks : t.op \in {"add", "update"} => C11_HasSchemePrefix(t.url)
    /\ \A r \in store : r.user_id = SessionUser => C11_HasSchemePrefix(r.url)

\* C12: when the trimmed, lower-cased search text q is non-empty the search
\* stage keeps exactly the entries whose lower-cased title or lower-cased url
\* contains q, in list order; when q is empty the result is the input list.
C12_SearchKeepsMatches ==
    LET q == ToLowerCase(Trim(searchTerm))
    IN IF q = <<>>
       THEN Searched(bookmarks, searchTerm) = bookmarks
       ELSE Searched(bookmarks, searchTerm) =
              SelectSeq(bookmarks,
                        LAMBDA b : \/ Contains(ToLowerCase(b.title), q)
                                   \/ Contains(ToLowerCase(b.url), q))

\* C12 witness: the search text " Go" keeps the entries titled Go and go and
\* drops a third one.
C12_Witness ==
    /\ searchTerm = <<" ", "G", "o">>
    /\ Len(bookmarks) = 3
    /\ Len(Searched(bookmarks, searchTerm)) = 2
    /\ \E i \in 1..2 : Searched(bookmarks, searchTerm)[i].title = TxtGoLower

\* C13: with "All" the category stage returns its input; with any other value
\* it returns exactly the entries whose category, "General" when absent,
\* equals the value, in input order.
C13_CategoryFilterKeepsCategory ==
    IF filterCategory = "All"
    THEN Filtered(bookmarks, filterCategory) = bookmarks
    ELSE Filtered(bookmarks, filterCategory) =
           SelectSeq(bookmarks,
                     LAMBDA b : (IF "category" \in DOMAIN b THEN b.category ELSE "General")
                                   = filterCategory)

\* C13 witness: the filter General keeps an entry with no category and one
\* with category General, and drops a third one.
C13_Witness ==
    /\ filterCategory = "General"
    /\ Len(bookmarks) = 3
    /\ Len(Filtered(bookmarks, filterCategory)) = 2
    /\ \E i \in 1..2 : ~Has(Filtered(bookmarks, filterCategory)[i], "category")

\* C14: with "favorites" the favorites stage returns exactly the entries whose
\* is_favorite is true, an absent one counting as false, in input order; with
\* "all" it returns its input.
C14_FavoritesFilterKeepsFavorites ==
    IF favoritesFilter = "favorites"
    THEN FavFiltered(bookmarks, favoritesFilter) =
           SelectSeq(bookmarks,
                     LAMBDA b : IF "is_favorite" \in DOMAIN b THEN b.is_favorite ELSE FALSE)
    ELSE favoritesFilter = "all" /\ FavFiltered(bookmarks, favoritesFilter) = bookmarks

\* C14 witness: "favorites" keeps one favorite and drops an entry with no
\* is_favorite and one with is_favorite false.
C14_Witness ==
    /\ favoritesFilter = "favorites"
    /\ Len(bookmarks) = 3
    /\ Len(FavFiltered(bookmarks, favoritesFilter)) = 1
    /\ \E i \in 1..3 : ~Has(bookmarks[i], "is_favorite")

\* Every entry of the list has a created_at.
C15_TimestampsPresent(list) == \A i \in 1..Len(list) : Has(list[i], "created_at")

\* C15, as stated: for every list whose entries all have a created_at, newest
\* gives the exact reverse of oldest; for every list, az gives the exact
\* reverse of za.
C15_SortsAreReverses ==
    /\ C15_TimestampsPresent(bookmarks)
          => Sorted(bookmarks, "newest") = Reverse(Sorted(bookmarks, "oldest"))
    /\ Sorted(bookmarks, "az") = Reverse(Sorted(bookmarks, "za"))

\* The place of the entry with this id in a list that holds it once.
C15_Place(list, id) == CHOOSE k \in 1..Len(list) : list[k].id = id

\* Entries i < j of the list that tie under the key are in that order in out.
C15_TiesKeepOrder(list, out, Tie(_, _)) ==
    \A i, j \in 1..Len(list) :
        (i < j /\ Tie(list[i], list[j]))
           => C15_Place(out, list[i].id) < C15_Place(out, list[j].id)

C15_SameTime(a, b) == TimeOf(a) = TimeOf(b)
C15_SameTitle(a, b) == LocaleCompare(a.title, b.title) = 0

\* C15, amended: newest is the exact reverse of oldest when every entry has a
\* created_at and no two have the same one; az is the exact reverse of za when
\* no two titles compare equal; under each of the four keys entries that
\* compare equal keep their input order.
C15_ReversesWithoutTies ==
    /\ (/\ C15_TimestampsPresent(bookmarks)
        /\ \A i, j \in 1..Len(bookmarks) :
              i # j => ~C15_SameTime(bookmarks[i], bookmarks[j]))
          => Sorted(bookmarks, "newest") = Reverse(Sorted(bookmarks, "oldest"))
    /\ (\A i, j \in 1..Len(bookmarks) :
           i # j => ~C15_SameTitle(bookmarks[i], bookmarks[j]))
          => Sorted(bookmarks, "az") = Reverse(Sorted(bookmarks, "za"))
    /\ \A opt \in {"newest", "oldest"} :
          C15_TiesKeepOrder(bookmarks, Sorted(bookmarks, opt), C15_SameTime)
    /\ \A opt \in {"az", "za"} :
          C15_TiesKeepOrder(bookmarks, Sorted(bookmarks, opt), C15_SameTitle)

\* C15 witness: three entries with three created_at values and three titles
\* that newest puts in another order than the list has.
C15_Witness ==
    /\ Len(bookmarks) = 3
    /\ C15_TimestampsPresent(bookmarks)
    /\ \A i, j \in 1..3 :
          i # j => /\ ~C15_SameTime(bookmarks[i], bookmarks[j])
                   /\ ~C15_SameTitle(bookmarks[i], bookmarks[j])
    /\ Sorted(bookmarks, "newest") # bookmarks
    /\ Sorted(bookmarks, "oldest") # bookmarks

\* The list with "General" written into every entry that has no category.
C16_WithDefaults(list) ==
    [i \in 1..Len(list) |->
        IF Has(list[i], "category") THEN list[i]
        ELSE [f \in DOMAIN list[i] \cup {"category"} |->
                 IF f = "category" THEN "General" ELSE list[i][f]]]

\* C16: totalFavorites <= totalBookmarks; totalCategoriesUsed >= 1 whenever
\* totalBookmarks >= 1; totalCategoriesUsed <= totalBookmarks; an absent
\* category counts as "General", so writing "General" into the entries that
\* lack one leaves totalCategoriesUsed as it is.
C16_SummaryCounts ==
    /\ TotalFavorites(bookmarks) <= TotalBookmarks(bookmarks)
    /\ TotalBookmarks(bookmarks) >= 1 => TotalCategoriesUsed(bookmarks) >= 1
    /\ TotalCategoriesUsed(bookmarks) <= TotalBookmarks(bookmarks)
    /\ TotalCategoriesUsed(bookmarks) = TotalCategoriesUsed(C16_WithDefaults(bookmarks))

\* C16 witness: three entries, one with no category and one with "General",
\* give two categories used and one favorite.
C16_Witness ==
    /\ TotalBookmarks(bookmarks) = 3
    /\ TotalCategoriesUsed(bookmarks) = 2
    /\ TotalFavorites(bookmarks) = 1
    /\ \E i, j \in 1..3 :
          ~Has(bookmarks[i], "category")
             /\ Has(bookmarks[j], "category") /\ bookmarks[j].category = "General"

\* C17: a step that changes a display control (search text, category filter,
\* favorites filter, sort key) leaves the in-memory list and the four summary
\* values as they were, the render that derives the visible sequence included.
C17_ControlsLeaveListAlone ==
    [][viewVars' # viewVars
          => /\ bookmarks' = bookmarks
             /\ Summary(bookmarks') = Summary(bookmarks)]_vars

\* C17 witness: all four controls are off their defaults and the visible
\* sequence differs from the list.
C17_Witness ==
    /\ searchTerm # Empty
    /\ filterCategory # "All"
    /\ favoritesFilter = "favorites"
    /\ sortOption = "oldest"
    /\ Len(bookmarks) = 3
    /\ Visible # <<>>
    /\ Visible # bookmarks

\* C18: while the list view is rendered, "no bookmarks exist" is shown if and
\* only if the in-memory list is empty, whatever the controls are; "no results
\* for these filters" is shown if and only if the list is non-empty and the
\* derived visible sequence is empty; the two are never shown together.
C18_EmptyStatesDistinct ==
    Interactive
       => /\ NoBookmarksShown <=> bookmarks = <<>>
          /\ NoResultsShown <=>
                (/\ bookmarks # <<>>
                 /\ Derived(bookmarks, searchTerm, filterCategory, favoritesFilter,
                            sortOption) = <<>>)
          /\ ~(NoBookmarksShown /\ NoResultsShown)

\* C18 witness: a list of two entries with filters that leave none of them.
C18_Witness ==
    /\ NoResultsShown
    /\ ~NoBookmarksShown
    /\ Len(bookmarks) = 2
    /\ filterCategory = "Personal"

\* C19: editingId is one id or null.  A step that puts a bookmark in edit mode
\* sets editingId to the id of an entry of the list and editTitle and editUrl
\* to that entry's title and url, and changes neither the list nor the requests
\* in flight.  A step that ends edit mode, Cancel or a successful Update, and
\* every successful Update, leave editingId null and editTitle and editUrl
\* empty; ending it without a request settling leaves the list and the
\* requests in flight as they were.
C19_OneEditTarget ==
    [][/\ (editingId' # editingId /\ editingId' # NoId)
            => /\ \E i \in 1..Len(bookmarks) :
                     /\ editingId' = bookmarks[i].id
                     /\ editTitle' = bookmarks[i].title
                     /\ editUrl' = bookmarks[i].url
               /\ bookmarks' = bookmarks
               /\ tasks' = tasks
       /\ (editingId # NoId /\ editingId' = NoId)
            => /\ editTitle' = Empty
               /\ editUrl' = Empty
               /\ (\A t \in tasks : ~SettledOk(t))
                     => bookmarks' = bookmarks /\ tasks' = tasks
       /\ \A t \in tasks :
            (t.op = "update" /\ SettledOk(t) /\ Len(t.data) > 0)
               => editingId' = NoId /\ editTitle' = Empty /\ editUrl' = Empty]_vars

\* C19 witness: a bookmark was put in edit mode and saved, and the successful
\* Update has just cleared the edit state.
C19_Witness ==
    /\ last = "update_ok"
    /\ editingId = NoId
    /\ editTitle = Empty
    /\ editUrl = Empty
    /\ \E t \in tasks : t.op = "refetch" /\ t.id # NoId /\ t.title # Empty

\* C20: at most one Create request and at most one Update (with its refetch)
\* is in flight; adding is true exactly while the add handler has its request
\* out, updating exactly while the update handler has its requests out.
C20_OneRequestPerFlag ==
    /\ Cardinality({t \in tasks : t.op = "add"}) <= 1
    /\ Cardinality({t \in tasks : t.op \in {"update", "refetch"}}) <= 1
    /\ adding <=> \E t \in tasks : t.op = "add"
    /\ updating <=> \E t \in tasks : t.op \in {"update", "refetch"}

\* C20 witness: an add and an update are in flight together, both flags set.
C20_Witness ==
    /\ adding
    /\ updating
    /\ AddDisabled
    /\ SaveDisabled
    /\ \E t \in tasks : t.op = "add"
    /\ \E t \in tasks : t.op = "update"

\* C21: once two ToggleFavorite actions on an entry have both completed, each
\* succeeding or failing, in any order, the in-memory is_favorite of the entry
\* equals its value before the first toggle (the value the list was fetched
\* with) whenever the store's value does.
C21_TwoTogglesRestore ==
    (opCount = 2 /\ tasks = {})
       => \A i \in 1..Len(bookmarks) : \A r \in store : \A q \in InitialStore :
             (r.id = bookmarks[i].id /\ q.id = r.id /\ r.is_favorite = q.is_favorite)
                => bookmarks[i].is_favorite = q.is_favorite

\* The place of the entry with this id in a list that holds it once.
C22_Place(list, id) == CHOOSE k \in 1..Len(list) : list[k].id = id

\* Entries i < j of the list that have the same sort value are in that order
\* in out.
C22_EqualKeepOrder(list, out, Value(_)) ==
    \A i, j \in 1..Len(list) :
        (i < j /\ Value(list[i]) = Value(list[j]))
           => C22_Place(out, list[i].id) < C22_Place(out, list[j].id)

\* The timestamp an entry is sorted by: its created_at, epoch 0 when missing.
C22_Time(b) == IF "created_at" \in DOMAIN b THEN b.created_at ELSE 0

C22_Title(b) == b.title

\* C22: an entry with no created_at is ordered as if its timestamp were epoch
\* 0: under newest it comes after every entry with a later timestamp, under
\* oldest before every such entry; under each key, entries that compare equal
\* keep their input order; an unrecognised sort key leaves the input order
\* unchanged.
C22_SortFallbacks ==
    /\ \A i, j \in 1..Len(bookmarks) :
          (~Has(bookmarks[i], "created_at") /\ C22_Time(bookmarks[j]) > 0)
             => /\ C22_Place(Sorted(bookmarks, "newest"), bookmarks[i].id)
                     > C22_Place(Sorted(bookmarks, "newest"), bookmarks[j].id)
                /\ C22_Place(Sorted(bookmarks, "oldest"), bookmarks[i].id)
                     < C22_Place(Sorted(bookmarks, "oldest"), bookmarks[j].id)
    /\ \A opt \in {"newest", "oldest"} :
          C22_EqualKeepOrder(bookmarks, Sorted(bookmarks, opt), C22_Time)
    /\ \A opt \in {"az", "za"} :
          C22_EqualKeepOrder(bookmarks, Sorted(bookmarks, opt), C22_Title)
    /\ Sorted(bookmarks, UnknownSortKey) = bookmarks

\* C22 witness: under oldest the entry with no created_at, last in the list,
\* is shown first, and the two entries with the same created_at follow in
\* their input order.
C22_Witness ==
    /\ sortOption = "oldest"
    /\ Len(bookmarks) = 3
    /\ ~Has(bookmarks[3], "created_at")
    /\ C22_Time(bookmarks[1]) = C22_Time(bookmarks[2])
    /\ Visible = <<bookmarks[3], bookmarks[1], bookmarks[2]>>

\* C23: the Update request carries editTitle and editUrl and nothing else, and
\* targets the row whose id is editingId; when the store serves it, the row
\* with that id keeps its id, owner, category, is_favorite and created_at, and
\* every other row is in the store unchanged.
C23_UpdateWritesTitleAndUrl ==
    [][/\ \A t \in tasks' :
            (t.op = "update" /\ Started(t))
               => /\ t.id = editingId
                  /\ t.title = editTitle
                  /\ t.url = editUrl
                  /\ t.category = Null
       /\ \A t \in tasks :
            (t.op = "update" /\ ServedNow(t))
               => /\ Cardinality(store') = Cardinality(store)
                  /\ \A r \in store :
                       IF r.id = t.id
                       THEN \E n \in store' :
                               /\ n.id = r.id
                               /\ n.user_id = r.user_id
                               /\ n.category = r.category
                               /\ n.is_favorite = r.is_favorite
                               /\ n.created_at = r.created_at
                               /\ n.title = t.title
                               /\ n.url = t.url
                       ELSE r \in store']_vars

\* C23 witness: the store has served an Update of bookmark 1: new title and
\* url, category and is_favorite as seeded, the other user's row untouched.
C23_Witness ==
    /\ Row(1, SessionUser, TxtRust, UrlFtp, "Work", 1, TRUE) \in store
    /\ Row(2, OtherUser, TxtGo, UrlHttps, "General", 2, FALSE) \in store
    /\ \E t \in tasks : t.op = "update" /\ t.pc = "replied" /\ t.id = 1

\* C24: List results are applied in completion order with no reconciliation:
\* whenever the initial fetch or a refetch settles with a result, the list
\* becomes that result, also when the result is an older snapshot than the
\* list it replaces.
C24_LastListResultWins ==
    [][\A t \in tasks :
         (t.op \in {"list", "refetch"} /\ SettledOk(t)) => bookmarks' = t.data]_vars

\* C24 witness: the initial fetch and the refetch after an Update overlapped;
\* the refetch result has been applied and the list is the store's current
\* rows, while the initial fetch, served earlier, still holds an older and
\* different snapshot that its completion will put on screen.
C24_Witness ==
    /\ last = "refetch_ok"
    /\ bookmarks = SelectRows(SessionUser)
    /\ \E t \in tasks : t.op = "list" /\ t.pc = "replied" /\ t.data # bookmarks

\* C25: when every store call completes, an add in flight is followed by a
\* state where adding is false again and an update in flight by a state where
\* updating is false again, on every outcome of the insert, of the update and
\* of the refetch.
C25_FlagsEventuallyClear ==
    /\ adding ~> ~adding
    /\ updating ~> ~updating

\* C25 witness: an Update went through and its refetch failed, and the save
\* control is enabled again; an add that failed has also cleared its flag.
C25_Witness ==
    /\ last = "refetch_failed"
    /\ ~updating
    /\ ~adding
    /\ formError \in {ErrInsert, ErrUnexpected}

\* C26: in every reachable state the list is ordered by created_at descending,
\* so the title the dashboard shows as latest is the title of the first entry
\* and no entry of the list has a greater created_at; the placeholder is
\* shown exactly when the list is empty.
C26_LatestIsNewest ==
    /\ \A i, j \in 1..Len(bookmarks) :
          i < j => bookmarks[i].created_at >= bookmarks[j].created_at
    /\ Len(bookmarks) > 0
          => /\ LatestBookmarkTitle(bookmarks) = bookmarks[1].title
             /\ \A j \in 1..Len(bookmarks) :
                   bookmarks[1].created_at >= bookmarks[j].created_at
    /\ (LatestBookmarkTitle(bookmarks) = <<"-">>) <=> (bookmarks = <<>>)

\* C26 witness: an add has completed on top of a fetched list, and the new
\* row is the first of two entries.
C26_Witness ==
    /\ last = "add_ok"
    /\ Len(bookmarks) = 2
    /\ bookmarks[1].id = 3
    /\ bookmarks[2].id = 1
    /\ LatestBookmarkTitle(bookmarks) = TxtRust

\* C27: in every reachable state no two entries of the list have the same id.
C27_UniqueIds ==
    \A i, j \in 1..Len(bookmarks) : bookmarks[i].id = bookmarks[j].id => i = j

\* C27 witness: a List result has already put the row created by an add on
\* screen, next to another entry, while the add that created it is still to
\* complete.
C27_Witness ==
    /\ Len(bookmarks) = 2
    /\ \E t \in tasks :
          /\ t.op = "add"
          /\ t.pc = "replied"
          /\ Len(t.data) > 0
          /\ t.data[1].id \in Ids(bookmarks)

\* C28: in every reachable state editingId is null or the id of an entry of
\* the list.
C28_EditTargetInList == editingId = NoId \/ editingId \in Ids(bookmarks)

\* C29: in every state where no store request is in flight, every entry that
\* is both in the list and in the store has the store's is_favorite.
C29_FavoritesConverge ==
    tasks = {}
       => \A i \in 1..Len(bookmarks) : \A r \in store :
             r.id = bookmarks[i].id => bookmarks[i].is_favorite = r.is_favorite

\* The ids of the session user's rows in the store.
C30_StoredIds == {r.id : r \in {q \in store : q.user_id = SessionUser}}

\* C30: in every state where the session check is done and no store request
\* is in flight, the ids in the list are the ids of the user's rows in the
\* store.
C30_ListMatchesStore ==
    (sessionPc = "done" /\ tasks = {}) => Ids(bookmarks) = C30_StoredIds

\* C30, the deleted bookmark on screen again: nothing is in flight, the last
\* completion was an add, and the list holds an id the store no longer has.
C30_DeletedReappears ==
    /\ sessionPc = "done"
    /\ tasks = {}
    /\ last = "add_ok"
    /\ 1 \in Ids(bookmarks)
    /\ 1 \notin C30_StoredIds

====
